---- MODULE Spec2Model ----
(***************************************************************************)
(* Model of the goharmony Parser (package goharmony): ParseResponse and    *)
(* the accessors built on it.                                              *)
(*                                                                         *)
(* A Go string is modelled as a sequence of lexical symbols.  A symbol is  *)
(* either one of the literal tokens the three regular expressions of       *)
(* NewParserWithConfig name ("<|channel|>", "to=", "FUNCTION_CALL:", ...)  *)
(* or a plain piece of text: a run of word characters (\w+), one white     *)
(* space character, ".", "(" or ")".  Every literal token ends in a        *)
(* character that is neither \w nor \s, and every place where one of the   *)
(* regular expressions lets a \w+ or [\w.]+ run end demands a token, white *)
(* space, "(" or end of text next, so on texts that are concatenations of  *)
(* these symbols the matchers below compute what Go's leftmost-first       *)
(* regexp engine computes.                                                 *)
(***************************************************************************)
EXTENDS Naturals, Sequences, FiniteSets

\* ------------------------------------------------------------ the alphabet

START == "<|start|>"
END == "<|end|>"
CALL == "<|call|>"
RETURN == "<|return|>"
CHANNEL == "<|channel|>"
MESSAGE == "<|message|>"
CONSTRAIN == "<|constrain|>"
TO == "to="
FC == "FUNCTION_CALL:"
SP == " "
NL == "\n"
DOT == "."
LP == "("
RP == ")"
LBRACE == "{"
RBRACE == "}"
COMMA == ","

\* The members of a JSON object, each one symbol: "key": "value" and
\* "number": 42.
Member == {"\"key\": \"value\"", "\"number\": 42"}

\* Runs of word characters (the class \w); distinct words, none a
\* concatenation of others.
Word == {"final", "analysis", "commentary", "functions", "bogus", "sys",
         "assistant", "json", "f", "g", "w"}

\* The class \s.
Space == {SP, NL}

\* The class [\w.] of the to= target.
TargetChar == Word \cup {DOT}

\* The alternation <\|(?:end|call|return)\|> of messagePattern.
Terminators == {END, CALL, RETURN}

ChannelAnalysis == <<"analysis">>
ChannelCommentary == <<"commentary">>
ChannelFinal == <<"final">>

\* ------------------------------------------------------------ string helpers

Min(S) == CHOOSE x \in S : \A y \in S : x <= y

\* The symbol at position i, or "" past either end of the text.
At(s, i) == IF i \in 1..Len(s) THEN s[i] ELSE ""

\* s[lo:hi] of Go, on 1-based positions: the symbols lo .. hi-1.
Slice(s, lo, hi) == SubSeq(s, lo, hi - 1)

\* Where a greedy run of symbols of Class that starts at p ends (exclusive).
RECURSIVE RunEnd(_, _, _)
RunEnd(s, p, Class) ==
  IF p <= Len(s) /\ s[p] \in Class THEN RunEnd(s, p + 1, Class) ELSE p

\* Where a lazy run that starts at p stops: the nearest position at or after
\* p holding a symbol of Stop, or just past the end of the text.
RECURSIVE LazyEnd(_, _, _)
LazyEnd(s, p, Stop) ==
  IF p <= Len(s) /\ s[p] \notin Stop THEN LazyEnd(s, p + 1, Stop) ELSE p

\* strings.Contains(s, token) for a one-symbol token.
Contains(s, token) == \E i \in 1..Len(s) : s[i] = token

\* strings.HasPrefix(s, token) for a one-symbol token.
HasPrefix(s, token) == Len(s) >= 1 /\ s[1] = token

\* TrimSpace that trims nothing.
TrimSpaceNone(s) == s

\* strings.TrimLeftFunc in its place: only the leading white space goes.
TrimSpaceLeft(s) == Slice(s, RunEnd(s, 1, Space), Len(s) + 1)

\* strings.TrimSpace.
TrimSpace(s) ==
  LET lo == RunEnd(s, 1, Space)
      keep == {i \in lo..Len(s) : s[i] \notin Space}
  IN  IF keep = {} THEN <<>>
      ELSE Slice(s, lo, (CHOOSE i \in keep : \A j \in keep : j <= i) + 1)

\* ------------------------------------------------------------ the three patterns

NoMatch == [ok |-> FALSE]

\* bodyEnd with a greedy body: it runs to the last terminator of the text.
bodyEndFurthest(s, p) ==
  LET stops == {q \in p..Len(s) : s[q] \in Terminators}
  IN  IF stops = {} THEN Len(s) + 1
      ELSE CHOOSE q \in stops : \A r \in stops : r <= q

\* The tail (.*?)(?:<\|(?:end|call|return)\|>|$) of messagePattern: where the
\* lazy body that starts at p ends.  With the s flag "." matches any symbol, so
\* the body runs to the nearest terminator, or to the end of the text.
bodyEnd(s, p) == LazyEnd(s, p, Terminators)

\* A match attempt in progress: where it started, where it stands, whether it
\* still can succeed, and what the groups captured so far.
Cursor(p) ==
  [ok |-> TRUE, lo |-> p, pos |-> p, role |-> <<>>, channel |-> <<>>,
   to |-> <<>>, name |-> <<>>, bodyLo |-> p, bodyHi |-> p]

\* A literal token.
literal(s, c, token) ==
  IF c.ok /\ At(s, c.pos) = token
  THEN [c EXCEPT !.pos = c.pos + 1]
  ELSE [c EXCEPT !.ok = FALSE]

\* (?:token)?  The token is no word symbol, so leaving it out when it is there
\* never lets the rest match.
optional(s, c, token) ==
  IF c.ok /\ At(s, c.pos) = token THEN [c EXCEPT !.pos = c.pos + 1] ELSE c

\* \s*  What follows never starts with white space, so the greedy run is the
\* only one that lets the rest match.
spaces(s, c) == [c EXCEPT !.pos = RunEnd(s, c.pos, Space)]

\* (\w+)? before <|channel|>: the greedy run, empty when no word stands here.
roleGroup(s, c) ==
  [c EXCEPT !.role = Slice(s, c.pos, RunEnd(s, c.pos, Word)),
            !.pos = RunEnd(s, c.pos, Word)]

\* (\w+) after <|channel|>.
channelGroup(s, c) ==
  IF c.ok /\ RunEnd(s, c.pos, Word) > c.pos
  THEN [c EXCEPT !.channel = Slice(s, c.pos, RunEnd(s, c.pos, Word)),
                 !.pos = RunEnd(s, c.pos, Word)]
  ELSE [c EXCEPT !.ok = FALSE]

\* (\w+) after FUNCTION_CALL:\s*.
nameGroup(s, c) ==
  IF c.ok /\ RunEnd(s, c.pos, Word) > c.pos
  THEN [c EXCEPT !.name = Slice(s, c.pos, RunEnd(s, c.pos, Word)),
                 !.pos = RunEnd(s, c.pos, Word)]
  ELSE [c EXCEPT !.ok = FALSE]

\* The target [\w.]+ that stands at position t, after "to=".
targetAt(s, c, t) ==
  IF RunEnd(s, t, TargetChar) > t
  THEN [c EXCEPT !.to = Slice(s, t, RunEnd(s, t, TargetChar)),
                 !.pos = RunEnd(s, t, TargetChar)]
  ELSE c

\* (?:\s+to=([\w.]+))?  When the group matches, nothing else can stand at its
\* place; when it does not, the attempt goes on without it.
toGroup(s, c) ==
  IF /\ c.ok
     /\ RunEnd(s, c.pos, Space) > c.pos
     /\ At(s, RunEnd(s, c.pos, Space)) = TO
  THEN targetAt(s, c, RunEnd(s, c.pos, Space) + 1)
  ELSE c

\* The type \w+ that stands at position t, after <|constrain|>.
typeAt(s, c, t) ==
  IF RunEnd(s, t, Word) > t THEN [c EXCEPT !.pos = RunEnd(s, t, Word)] ELSE c

\* (?:\s*<\|constrain\|>\w+)?
constrainGroup(s, c) ==
  IF c.ok /\ At(s, RunEnd(s, c.pos, Space)) = CONSTRAIN
  THEN typeAt(s, c, RunEnd(s, c.pos, Space) + 1)
  ELSE c

\* (.*?) and what ends it: the lazy run up to the position `stop`, which holds
\* the ending token or lies just past the end of the text.
lazyGroup(s, c, stop) ==
  [c EXCEPT !.bodyLo = c.pos, !.bodyHi = stop,
            !.pos = IF stop <= Len(s) THEN stop + 1 ELSE stop]

\* The submatches of a finished attempt.
submatches(s, c) ==
  IF c.ok
  THEN [ok |-> TRUE, lo |-> c.lo, hi |-> c.pos,
        whole |-> Slice(s, c.lo, c.pos),
        role |-> c.role, channel |-> c.channel, to |-> c.to, name |-> c.name,
        body |-> Slice(s, c.bodyLo, c.bodyHi),
        bodyLo |-> c.bodyLo, bodyHi |-> c.bodyHi]
  ELSE NoMatch

\* The header of messagePattern, up to and with <|message|>:
\*   (?:<\|start\|>)?(\w+)?<\|channel\|>(\w+)(?:\s+to=([\w.]+))?
\*   (?:\s*<\|constrain\|>\w+)?<\|message\|>
\* Every greedy run is followed by a symbol outside its class, so a shorter
\* run never lets the rest match and the preferred match is the only one.
messageHeader(s, p) ==
  literal(s,
    constrainGroup(s,
      toGroup(s,
        channelGroup(s,
          literal(s, roleGroup(s, optional(s, Cursor(p), START)), CHANNEL)))),
    MESSAGE)

\* messageBody without the "$" alternative: the body must be ended by a token.
messageBodyTerminated(s, c) ==
  IF c.ok /\ bodyEnd(s, c.pos) <= Len(s)
  THEN lazyGroup(s, c, bodyEnd(s, c.pos))
  ELSE [c EXCEPT !.ok = FALSE]

\* The body and the end of a messagePattern match whose header is c.
messageBody(s, c) == IF c.ok THEN lazyGroup(s, c, bodyEnd(s, c.pos)) ELSE c

\* One attempt of messagePattern anchored at position p.
messagePatternAt(s, p) == submatches(s, messageBody(s, messageHeader(s, p)))

\* The body and the end of a channelPattern match whose header is c:
\*   (.*?)(?:<\|end\|>|$)
\* Without the s flag "." does not match a newline, so a newline before the
\* first <|end|> (or before the end of the text) fails the attempt.
channelBody(s, c) ==
  IF c.ok /\ At(s, LazyEnd(s, c.pos, {END, NL})) # NL
  THEN lazyGroup(s, c, LazyEnd(s, c.pos, {END, NL}))
  ELSE [c EXCEPT !.ok = FALSE]

\* One attempt of channelPattern anchored at position p:
\*   <\|channel\|>(\w+)<\|message\|>(.*?)(?:<\|end\|>|$)
channelPatternAt(s, p) ==
  submatches(s,
    channelBody(s,
      literal(s, channelGroup(s, literal(s, Cursor(p), CHANNEL)), MESSAGE)))

\* The arguments and the end of a functionPattern match: (.*?)\)
\* The lazy arguments stop at the nearest ")"; a newline before it fails the
\* attempt ("." does not match a newline).
functionArgs(s, c) ==
  IF c.ok /\ At(s, LazyEnd(s, c.pos, {RP, NL})) = RP
  THEN lazyGroup(s, c, LazyEnd(s, c.pos, {RP, NL}))
  ELSE [c EXCEPT !.ok = FALSE]

\* One attempt of functionPattern anchored at position p:
\*   FUNCTION_CALL:\s*(\w+)\((.*?)\)
\* The captured arguments are the body field of the submatches.
functionPatternAt(s, p) ==
  submatches(s,
    functionArgs(s,
      literal(s, nameGroup(s, spaces(s, literal(s, Cursor(p), FC))), LP)))

\* p.messagePattern.FindAllStringSubmatch(content, -1), from position `from`
\* on: the leftmost match, then the search resumes where that match ended
\* (no match of this pattern is empty).
RECURSIVE messagePatternFrom(_, _)
messagePatternFrom(s, from) ==
  IF from > Len(s) THEN <<>>
  ELSE LET m == messagePatternAt(s, from)
       IN  IF m.ok THEN <<m>> \o messagePatternFrom(s, m.hi)
           ELSE messagePatternFrom(s, from + 1)

messagePattern(s) == messagePatternFrom(s, 1)

\* p.channelPattern.FindAllStringSubmatch(content, -1).
RECURSIVE channelPatternFrom(_, _)
channelPatternFrom(s, from) ==
  IF from > Len(s) THEN <<>>
  ELSE LET m == channelPatternAt(s, from)
       IN  IF m.ok THEN <<m>> \o channelPatternFrom(s, m.hi)
           ELSE channelPatternFrom(s, from + 1)

channelPattern(s) == channelPatternFrom(s, 1)

\* p.functionPattern.FindStringSubmatch(content): the leftmost match, or nil.
RECURSIVE functionPatternFrom(_, _)
functionPatternFrom(s, from) ==
  IF from > Len(s) THEN NoMatch
  ELSE LET m == functionPatternAt(s, from)
       IN  IF m.ok THEN m ELSE functionPatternFrom(s, from + 1)

functionPattern(s) == functionPatternFrom(s, 1)

\* ------------------------------------------------------------ the parser

\* DefaultConfig().
DefaultConfig == [StrictMode |-> FALSE, DefaultRole |-> <<"assistant">>]

\* NewParserWithConfig(config): the patterns are the fixed ones above.
NewParserWithConfig(config) == [config |-> config]

\* The Message struct.
Message(role, channel, content, to, isCall) ==
  [Role |-> role, Channel |-> channel, Content |-> content, To |-> to,
   IsCall |-> isCall]

\* A nil error, and fmt.Errorf("invalid channel: %s", channel).
Nil == [isNil |-> TRUE, text |-> <<>>]
InvalidChannelError(channel) ==
  [isNil |-> FALSE, text |-> <<"invalid channel: ">> \o channel]

\* (p *Parser) isValidChannel.
isValidChannel(channel) ==
  channel \in {ChannelAnalysis, ChannelCommentary, ChannelFinal}

\* The body of ParseResponse's first loop: the message of one match.
fullFormMessage(p, match) ==
  Message(IF match.role # <<>> THEN match.role ELSE p.config.DefaultRole,
          match.channel,
          TrimSpace(match.body),
          match.to,
          Contains(match.whole, CALL))

\* The body of ParseResponse's second loop.
simplifiedMessage(p, match) ==
  Message(p.config.DefaultRole, match.channel, TrimSpace(match.body), <<>>, FALSE)

\* legacyMessage with the arguments trimmed.
legacyMessageTrimmed(p, match) ==
  Message(p.config.DefaultRole, ChannelCommentary, TrimSpace(match.body),
          <<"functions", DOT>> \o match.name, TRUE)

\* The message ParseResponse builds from a functionPattern match.
legacyMessage(p, match) ==
  Message(p.config.DefaultRole, ChannelCommentary, match.body,
          <<"functions", DOT>> \o match.name, TRUE)

\* plainMessage with the content trimmed.
plainMessageTrimmed(p, content) ==
  Message(p.config.DefaultRole, ChannelFinal, TrimSpace(content), <<>>, FALSE)

\* The message ParseResponse builds from unstructured content.
plainMessage(p, content) ==
  Message(p.config.DefaultRole, ChannelFinal, content, <<>>, FALSE)

\* validatedLoop that keeps what it appended before the failing message.
validatedLoopPartial(p, built) ==
  LET bad == {i \in 1..Len(built) :
                p.config.StrictMode /\ ~(built[i].Channel \in
                  {ChannelAnalysis, ChannelCommentary, ChannelFinal})}
  IN  IF bad # {}
      THEN [messages |-> SubSeq(built, 1, Min(bad) - 1),
            err |-> InvalidChannelError(built[Min(bad)].Channel)]
      ELSE [messages |-> built, err |-> Nil]

\* A loop of ParseResponse over matches: it appends one message per match and
\* returns (nil, error) at the first message whose channel fails the strict
\* check, dropping what it appended before.
validatedLoop(p, built) ==
  LET bad == {i \in 1..Len(built) :
                p.config.StrictMode /\ ~isValidChannel(built[i].Channel)}
  IN  IF bad # {}
      THEN [messages |-> <<>>, err |-> InvalidChannelError(built[Min(bad)].Channel)]
      ELSE [messages |-> built, err |-> Nil]

\* First block of ParseResponse: the full Harmony format.
fullFormStep(p, content) ==
  LET matches == messagePattern(content)
  IN  validatedLoop(p, [i \in 1..Len(matches) |-> fullFormMessage(p, matches[i])])

\* Second block: the simplified channel format, tried when nothing was found
\* and the content holds a channel marker.
simplifiedStep(p, content, messages) ==
  IF Len(messages) = 0 /\ Contains(content, CHANNEL)
  THEN LET matches == channelPattern(content)
       IN  validatedLoop(p, [i \in 1..Len(matches) |-> simplifiedMessage(p, matches[i])])
  ELSE [messages |-> messages, err |-> Nil]

\* legacyStep without its len(messages) == 0 condition.
legacyStepUnguarded(p, content, messages) ==
  IF Contains(content, FC)
  THEN LET match == functionPattern(content)
       IN  IF match.ok THEN Append(messages, legacyMessage(p, match)) ELSE messages
  ELSE messages

\* Third block: the FUNCTION_CALL format.
legacyStep(p, content, messages) ==
  IF Len(messages) = 0 /\ Contains(content, FC)
  THEN LET match == functionPattern(content)
       IN  IF match.ok THEN Append(messages, legacyMessage(p, match)) ELSE messages
  ELSE messages

\* Fourth block: plain content as one final message, outside strict mode.
plainStep(p, content, messages) ==
  IF Len(messages) = 0 /\ ~p.config.StrictMode /\ content # <<>>
  THEN Append(messages, plainMessage(p, content))
  ELSE messages

\* (p *Parser) ParseResponse(content) ([]Message, error).
ParseResponse(p, content) ==
  IF content = <<>> THEN [messages |-> <<>>, err |-> Nil]
  ELSE LET r1 == fullFormStep(p, content)
       IN  IF ~r1.err.isNil THEN r1
           ELSE LET r2 == simplifiedStep(p, content, r1.messages)
                IN  IF ~r2.err.isNil THEN r2
                    ELSE [messages |->
                            plainStep(p, content, legacyStep(p, content, r2.messages)),
                          err |-> Nil]

\* strings.Split(s, sep) for a one-symbol separator: every separator splits.
RECURSIVE Split(_, _)
Split(s, sep) ==
  LET q == LazyEnd(s, 1, {sep})
  IN  IF q > Len(s) THEN <<s>>
      ELSE <<Slice(s, 1, q)>> \o Split(Slice(s, q + 1, Len(s) + 1), sep)

\* ExtractFinalMessage with the fallback of the two modes exchanged.
ExtractFinalMessageSwapped(p, content) ==
  LET r == ParseResponse(p, content)
      picks == {i \in 1..Len(r.messages) :
                  /\ r.messages[i].Channel = ChannelFinal
                  /\ ~r.messages[i].IsCall
                  /\ ~HasPrefix(r.messages[i].Content, FC)}
  IN  IF ~r.err.isNil \/ Len(r.messages) = 0
      THEN IF p.config.StrictMode THEN content ELSE <<>>
      ELSE IF picks # {} THEN r.messages[Min(picks)].Content ELSE <<>>

\* ExtractFinalMessage without the skip of function call syntax.
ExtractFinalMessageNoSkip(p, content) ==
  LET r == ParseResponse(p, content)
      picks == {i \in 1..Len(r.messages) :
                  /\ r.messages[i].Channel = ChannelFinal
                  /\ ~r.messages[i].IsCall}
  IN  IF ~r.err.isNil \/ Len(r.messages) = 0
      THEN IF ~p.config.StrictMode THEN content ELSE <<>>
      ELSE IF picks # {} THEN r.messages[Min(picks)].Content ELSE <<>>

\* ExtractFinalMessage from the point where ParseResponse has returned r.
finalMessage(p, content, r) ==
  LET picks == {i \in 1..Len(r.messages) :
                  /\ r.messages[i].Channel = ChannelFinal
                  /\ ~r.messages[i].IsCall
                  /\ ~HasPrefix(r.messages[i].Content, FC)}
  IN  IF ~r.err.isNil \/ Len(r.messages) = 0
      THEN IF ~p.config.StrictMode THEN content ELSE <<>>
      ELSE IF picks # {} THEN r.messages[Min(picks)].Content ELSE <<>>

\* (p *Parser) ExtractFinalMessage(content) string.
ExtractFinalMessage(p, content) ==
  LET r == ParseResponse(p, content) IN finalMessage(p, content, r)

\* ExtractFunctionCall without the match of functionPattern on the raw content.
ExtractFunctionCallNoFallback(p, content) ==
  LET r == ParseResponse(p, content)
      calls == {i \in 1..Len(r.messages) :
                  /\ r.messages[i].IsCall
                  /\ r.messages[i].To # <<>>
                  /\ Len(Split(r.messages[i].To, DOT)) >= 2}
      none == [functionName |-> <<>>, args |-> <<>>, found |-> FALSE]
  IN  IF ~r.err.isNil THEN none
      ELSE IF calls # {}
      THEN LET msg == r.messages[Min(calls)]
           IN  [functionName |-> Split(msg.To, DOT)[2], args |-> msg.Content,
                found |-> TRUE]
      ELSE none

\* ExtractFunctionCall from the point where ParseResponse has returned r.
functionCall(p, content, r) ==
  LET calls == {i \in 1..Len(r.messages) :
                  /\ r.messages[i].IsCall
                  /\ r.messages[i].To # <<>>
                  /\ Len(Split(r.messages[i].To, DOT)) >= 2}
      match == functionPattern(content)
      none == [functionName |-> <<>>, args |-> <<>>, found |-> FALSE]
  IN  IF ~r.err.isNil THEN none
      ELSE IF calls # {}
      THEN LET msg == r.messages[Min(calls)]
           IN  [functionName |-> Split(msg.To, DOT)[2], args |-> msg.Content,
                found |-> TRUE]
      ELSE IF match.ok
      THEN [functionName |-> match.name, args |-> match.body, found |-> TRUE]
      ELSE none

\* (p *Parser) ExtractFunctionCall(content) (functionName, args string, found bool).
ExtractFunctionCall(p, content) ==
  LET r == ParseResponse(p, content) IN functionCall(p, content, r)

\* GetChannelContent that stops at the first message of the channel.
GetChannelContentFirst(p, content, channel) ==
  LET r == ParseResponse(p, content)
      matching == SelectSeq(r.messages, LAMBDA msg : msg.Channel = channel)
  IN  IF ~r.err.isNil \/ matching = <<>> THEN <<>>
      ELSE <<matching[1].Content>>

\* GetChannelContent from the point where ParseResponse has returned r.
channelContent(r, channel) ==
  LET matching == SelectSeq(r.messages, LAMBDA msg : msg.Channel = channel)
  IN  IF ~r.err.isNil THEN <<>>
      ELSE [i \in 1..Len(matching) |-> matching[i].Content]

\* (p *Parser) GetChannelContent(content, channel) []string.
GetChannelContent(p, content, channel) ==
  LET r == ParseResponse(p, content) IN channelContent(r, channel)

\* HasChannel from the point where ParseResponse has returned r.
hasChannel(r, channel) ==
  IF ~r.err.isNil THEN FALSE
  ELSE \E i \in 1..Len(r.messages) : r.messages[i].Channel = channel

\* (p *Parser) HasChannel(content, channel) bool.
HasChannel(p, content, channel) ==
  LET r == ParseResponse(p, content) IN hasChannel(r, channel)

\* strings.Index(s, token) and strings.LastIndex(s, token) for a one-symbol
\* token, on 1-based positions: 0 where Go returns -1.
Index(s, token) ==
  LET q == LazyEnd(s, 1, {token}) IN IF q > Len(s) THEN 0 ELSE q

RECURSIVE LastIndexFrom(_, _, _)
LastIndexFrom(s, token, i) ==
  IF i = 0 \/ s[i] = token THEN i ELSE LastIndexFrom(s, token, i - 1)

LastIndex(s, token) == LastIndexFrom(s, token, Len(s))

\* The nil map and the map holding the given members.
NilMap == [isNil |-> TRUE, members |-> {}]
Map(members) == [isNil |-> FALSE, members |-> members]

\* json.Unmarshal(data, &result) into a map[string]interface{}: white space
\* between tokens is skipped; the value must be one object, "{" members "}",
\* the members separated by single commas.  No symbol of the alphabet is a
\* bare key, so an object never nests.
Unmarshal(data) ==
  LET tokens == SelectSeq(data, LAMBDA x : x \notin Space)
      n == Len(tokens)
      ok == /\ n >= 2
            /\ tokens[1] = LBRACE
            /\ tokens[n] = RBRACE
            /\ n > 2 => n % 2 = 1
            /\ \A i \in 2..(n - 1) :
                 IF i % 2 = 0 THEN tokens[i] \in Member ELSE tokens[i] = COMMA
  IN  IF ok
      THEN [result |-> Map({tokens[i] : i \in 2..(n - 1)} \cap Member), ok |-> TRUE]
      ELSE [result |-> NilMap, ok |-> FALSE]

NoJSONFoundError == [isNil |-> FALSE, text |-> <<"no JSON found in content">>]
FailedToParseJSONError == [isNil |-> FALSE, text |-> <<"failed to parse JSON: ">>]

\* ExtractJSON that closes the candidate at the first "}" of the content.
ExtractJSONFirstClose(p, content) ==
  LET jsonStart == Index(content, LBRACE)
      jsonEnd == Index(content, RBRACE)
  IN  IF jsonStart = 0 \/ jsonEnd = 0 \/ jsonEnd < jsonStart
      THEN [jsonStr |-> <<>>, result |-> NilMap, err |-> NoJSONFoundError]
      ELSE LET jsonStr == Slice(content, jsonStart, jsonEnd + 1)
               decoded == Unmarshal(jsonStr)
           IN  IF ~decoded.ok
               THEN [jsonStr |-> jsonStr, result |-> NilMap,
                     err |-> FailedToParseJSONError]
               ELSE [jsonStr |-> jsonStr, result |-> decoded.result, err |-> Nil]

\* (p *Parser) ExtractJSON(content) (map[string]interface{}, error), with the
\* candidate jsonStr it decodes.
ExtractJSON(p, content) ==
  LET jsonStart == Index(content, LBRACE)
      jsonEnd == LastIndex(content, RBRACE)
  IN  IF jsonStart = 0 \/ jsonEnd = 0 \/ jsonEnd < jsonStart
      THEN [jsonStr |-> <<>>, result |-> NilMap, err |-> NoJSONFoundError]
      ELSE LET jsonStr == Slice(content, jsonStart, jsonEnd + 1)
               decoded == Unmarshal(jsonStr)
           IN  IF ~decoded.ok
               THEN [jsonStr |-> jsonStr, result |-> NilMap,
                     err |-> FailedToParseJSONError]
               ELSE [jsonStr |-> jsonStr, result |-> decoded.result, err |-> Nil]

\* ------------------------------------------------------------ the inputs

\* How many chunks a caller writes to its buffer.
MaxChunks == 2

\* A full-form message block as a producer emits it.  lead and trail are
\* white space around the body's text; term is the terminator token with the
\* line break a producer may put after it, empty for a block cut short.
Block(start, role, channel, to, constrain, lead, core, trail, term) ==
  [block |-> TRUE, start |-> start, role |-> role, channel |-> channel,
   to |-> to, constrain |-> constrain, lead |-> lead, core |-> core,
   trail |-> trail, term |-> term]

BlockText(b) ==
  (IF b.start THEN <<START>> ELSE <<>>) \o b.role \o <<CHANNEL>> \o b.channel
  \o (IF b.to # <<>> THEN <<SP, TO>> \o b.to ELSE <<>>)
  \o (IF b.constrain # <<>> THEN <<SP, CONSTRAIN>> \o b.constrain ELSE <<>>)
  \o <<MESSAGE>> \o b.lead \o b.core \o b.trail \o b.term

\* A piece of text that is no block of its own.
Fragment(text) == [block |-> FALSE, text |-> text]

\* The chunks a response is made of: whole blocks and loose pieces.
Chunks ==
  << Block(FALSE, <<>>, ChannelFinal, <<>>, <<>>, <<SP>>, <<"w">>, <<NL>>, <<END>>),
     Block(FALSE, <<>>, ChannelAnalysis, <<>>, <<>>, <<>>, <<"w", SP, "f">>, <<>>, <<END, NL>>),
     Block(TRUE, <<"sys">>, ChannelFinal, <<>>, <<>>, <<>>, <<"g">>, <<>>, <<RETURN>>),
     Block(FALSE, <<>>, ChannelCommentary, <<"functions", DOT, "f">>, <<>>,
           <<>>, <<"w">>, <<SP>>, <<CALL>>),
     Block(TRUE, <<>>, ChannelCommentary, <<"functions", DOT, "f", DOT, "g">>, <<"json">>,
           <<NL>>, <<LP, "w", RP>>, <<>>, <<CALL>>),
     Block(FALSE, <<>>, ChannelFinal, <<"f">>, <<>>, <<>>, <<"g">>, <<>>, <<CALL>>),
     Block(FALSE, <<"sys">>, ChannelAnalysis, <<>>, <<>>, <<>>, <<"f">>, <<>>, <<CALL>>),
     Block(FALSE, <<>>, <<"bogus">>, <<>>, <<>>, <<>>, <<"w">>, <<>>, <<END>>),
     Block(FALSE, <<>>, ChannelFinal, <<>>, <<>>, <<SP>>, <<FC, SP, "f", LP, "w", RP>>,
           <<>>, <<END>>),
     Block(FALSE, <<>>, ChannelFinal, <<>>, <<>>, <<>>, <<"w">>, <<>>, <<>>),
     Fragment(<<FC, SP, "f", LP, SP, "w", RP>>),
     Fragment(<<FC, "g", LP, "w", RP>>),
     Fragment(<<FC>>),
     Fragment(<<"w">>),
     Fragment(<<NL>>),
     Fragment(<<END>>),
     Fragment(<<CALL>>),
     Fragment(<<CHANNEL, "final">>),
     Fragment(<<MESSAGE, "w">>) >>

ChunkText(c) == IF c.block THEN BlockText(c) ELSE c.text

\* The pieces of the contents handed to ExtractJSON: the valid content of the
\* test in two halves, the invalid one, plain text, and single symbols.
JSONChunks ==
  << <<"w", SP, LBRACE, "\"key\": \"value\"", COMMA>>,
     <<SP, "\"number\": 42", RBRACE, SP, "w">>,
     <<LBRACE, "\"key\": \"value\"", RBRACE>>,
     <<LBRACE, "w", RBRACE>>,
     <<"w">>,
     <<LBRACE>>,
     <<RBRACE>>,
     <<COMMA>>,
     <<NL>> >>

\* ------------------------------------------------------------ the state machine

VARIABLES
  parser,        \* the *Parser a caller holds (its config)
  buffer,        \* the content the caller has accumulated
  chunks,        \* the chunks written to the buffer so far (indices into Chunks)
  op,            \* the method called last on the buffer, "" when none
  messages,      \* ParseResponse: the returned []Message
  err,           \* ParseResponse: the returned error
  result,        \* ExtractFinalMessage: the returned string
  call,          \* ExtractFunctionCall: (functionName, args, found)
  channel,       \* GetChannelContent, HasChannel: the channel asked for
  results,       \* GetChannelContent: the returned []string
  has,           \* HasChannel: the returned bool
  jsonStr,       \* ExtractJSON: the candidate it decodes
  object,        \* ExtractJSON: the returned map
  invoked,       \* per concurrent caller: the call it makes (index into Calls)
  pc,            \* per concurrent caller: where its call stands
  frames,        \* per call frame: the locals messages, err of ParseResponse
  returned,      \* per concurrent caller: what its call returned
  stream,          \* streaming: the part of the response still to arrive
  lastFinalContent,\* streaming: the final content shown last
  printed          \* streaming: what the last chunk made the user see

vars == <<parser, buffer, chunks, op, messages, err, result, call,
          channel, results, has, jsonStr, object,
          invoked, pc, frames, returned, stream, lastFinalContent, printed>>

\* What one caller working through a buffer holds, and what concurrent
\* callers hold.
callerVars == <<buffer, chunks, op, messages, err, result, call,
                channel, results, has, jsonStr, object>>
concurrentVars == <<invoked, pc, frames, returned>>
streamVars == <<stream, lastFinalContent, printed>>

\* The number of concurrent callers of one parser.
NumCallers == 2
Callers == 1..NumCallers

NoFrame == [messages |-> <<>>, err |-> Nil]
NoValue == [none |-> TRUE]

NoCall == [functionName |-> <<>>, args |-> <<>>, found |-> FALSE]

\* The default roles a parser is configured with.
DefaultRoles == {DefaultConfig.DefaultRole, <<>>}

Init ==
  /\ \E strict \in BOOLEAN, role \in DefaultRoles :
       parser = NewParserWithConfig([StrictMode |-> strict, DefaultRole |-> role])
  /\ buffer = <<>>
  /\ chunks = <<>>
  /\ op = ""
  /\ messages = <<>>
  /\ err = Nil
  /\ result = <<>>
  /\ call = NoCall
  /\ channel = <<>>
  /\ results = <<>>
  /\ has = FALSE
  /\ jsonStr = <<>>
  /\ object = NilMap
  /\ invoked = [c \in Callers |-> 0]
  /\ pc = [c \in Callers |-> "idle"]
  /\ frames = [f \in Callers |-> NoFrame]
  /\ returned = [c \in Callers |-> NoValue]
  /\ stream = <<>>
  /\ lastFinalContent = <<>>
  /\ printed = <<>>

\* buffer.WriteString(chunk): the caller appends the next chunk.
WriteString ==
  /\ Len(chunks) < MaxChunks
  /\ \E c \in 1..Len(Chunks) :
       /\ buffer' = buffer \o ChunkText(Chunks[c])
       /\ chunks' = Append(chunks, c)
  /\ op' = ""
  /\ messages' = <<>>
  /\ err' = Nil
  /\ result' = <<>>
  /\ call' = NoCall
  /\ channel' = <<>>
  /\ results' = <<>>
  /\ has' = FALSE
  /\ jsonStr' = <<>>
  /\ object' = NilMap
  /\ UNCHANGED <<parser, concurrentVars, streamVars>>

\* messages, err := parser.ParseResponse(buffer).  What a method returns
\* depends on the parser and the content alone, so the caller makes one call
\* per content of the buffer.
CallParseResponse ==
  /\ op = ""
  /\ LET r == ParseResponse(parser, buffer)
     IN  messages' = r.messages /\ err' = r.err
  /\ op' = "ParseResponse"
  /\ result' = <<>>
  /\ call' = NoCall
  /\ UNCHANGED <<parser, buffer, chunks, channel, results, has, jsonStr, object>>
  /\ UNCHANGED <<concurrentVars, streamVars>>

\* result := parser.ExtractFinalMessage(buffer).
CallExtractFinalMessage ==
  /\ op = ""
  /\ result' = ExtractFinalMessage(parser, buffer)
  /\ op' = "ExtractFinalMessage"
  /\ messages' = <<>>
  /\ err' = Nil
  /\ call' = NoCall
  /\ UNCHANGED <<parser, buffer, chunks, channel, results, has, jsonStr, object>>
  /\ UNCHANGED <<concurrentVars, streamVars>>

\* functionName, args, found := parser.ExtractFunctionCall(buffer).
CallExtractFunctionCall ==
  /\ op = ""
  /\ call' = ExtractFunctionCall(parser, buffer)
  /\ op' = "ExtractFunctionCall"
  /\ messages' = <<>>
  /\ err' = Nil
  /\ result' = <<>>
  /\ UNCHANGED <<parser, buffer, chunks, channel, results, has, jsonStr, object>>
  /\ UNCHANGED <<concurrentVars, streamVars>>

Next ==
  \/ WriteString
  \/ CallParseResponse
  \/ CallExtractFinalMessage
  \/ CallExtractFunctionCall

Spec == Init /\ [][Next]_vars

\* The channels a caller asks for: two of the three constants and a channel
\* outside them.
Channels == {ChannelAnalysis, ChannelFinal, <<"bogus">>}

\* results := parser.GetChannelContent(buffer, channel).
CallGetChannelContent ==
  /\ op = ""
  /\ \E c \in Channels :
       /\ channel' = c
       /\ results' = GetChannelContent(parser, buffer, c)
  /\ op' = "GetChannelContent"
  /\ UNCHANGED <<parser, buffer, chunks, messages, err, result, call, has,
                 jsonStr, object, concurrentVars, streamVars>>

\* has := parser.HasChannel(buffer, channel).
CallHasChannel ==
  /\ op = ""
  /\ \E c \in Channels :
       /\ channel' = c
       /\ has' = HasChannel(parser, buffer, c)
  /\ op' = "HasChannel"
  /\ UNCHANGED <<parser, buffer, chunks, messages, err, result, call, results,
                 jsonStr, object, concurrentVars, streamVars>>

\* A caller that reads the channels of the content it accumulates.
NextChannel ==
  \/ WriteString
  \/ CallGetChannelContent
  \/ CallHasChannel

SpecChannel == Init /\ [][NextChannel]_vars

\* The caller appends the next piece of a content that may hold JSON.
WriteJSON ==
  /\ Len(chunks) < MaxChunks
  /\ \E c \in 1..Len(JSONChunks) :
       /\ buffer' = buffer \o JSONChunks[c]
       /\ chunks' = Append(chunks, c)
  /\ op' = ""
  /\ err' = Nil
  /\ jsonStr' = <<>>
  /\ object' = NilMap
  /\ UNCHANGED <<parser, messages, result, call, channel, results, has>>
  /\ UNCHANGED <<concurrentVars, streamVars>>

\* object, err := parser.ExtractJSON(buffer).
CallExtractJSON ==
  /\ op = ""
  /\ LET r == ExtractJSON(parser, buffer)
     IN  jsonStr' = r.jsonStr /\ object' = r.result /\ err' = r.err
  /\ op' = "ExtractJSON"
  /\ UNCHANGED <<parser, buffer, chunks, messages, result, call, channel,
                 results, has, concurrentVars, streamVars>>

\* A caller that looks for JSON in the content it accumulates.
NextJSON ==
  \/ WriteJSON
  \/ CallExtractJSON

SpecJSON == Init /\ [][NextJSON]_vars

\* strings.HasPrefix(s, prefix).
HasPrefixString(s, prefix) ==
  Len(prefix) <= Len(s) /\ SubSeq(s, 1, Len(prefix)) = prefix

\* The responses that arrive as streams: one to MaxChunks blocks, every block
\* but the last terminated.
Responses ==
  LET blocks == {c \in 1..Len(Chunks) : Chunks[c].block}
      closed == {c \in blocks : Chunks[c].term # <<>>}
  IN  UNION {{bs \in [1..n -> blocks] : \A i \in 1..(n - 1) : bs[i] \in closed} :
             n \in 1..MaxChunks}

RECURSIVE ResponseText(_)
ResponseText(bs) ==
  IF bs = <<>> THEN <<>> ELSE ChunkText(Chunks[Head(bs)]) \o ResponseText(Tail(bs))

\* The loop over the parsed messages of the streaming handler, from message i
\* on: a final content that is new and not empty is shown, whole or as what
\* follows the content shown last, and remembered.
RECURSIVE display(_, _, _, _)
display(msgs, i, last, out) ==
  IF i > Len(msgs) THEN [lastFinalContent |-> last, printed |-> out]
  ELSE LET msg == msgs[i]
       IN  IF msg.Channel = ChannelFinal /\ msg.Content # last /\ msg.Content # <<>>
           THEN display(msgs, i + 1, msg.Content,
                  Append(out, IF HasPrefixString(msg.Content, last)
                              THEN Slice(msg.Content, Len(last) + 1, Len(msg.Content) + 1)
                              ELSE msg.Content))
           ELSE display(msgs, i + 1, last, out)

\* What one turn of the loop has in hand when it ends.
turnOf(currentContent, r, shown) ==
  [currentContent |-> currentContent, messages |-> r.messages, err |-> r.err,
   lastFinalContent |-> shown.lastFinalContent, printed |-> shown.printed]

\* The loop body from the point where ParseResponse has returned r: on an
\* error nothing is shown and the loop goes on to the next chunk.
parsed(currentContent, r, last) ==
  IF ~r.err.isNil
  THEN turnOf(currentContent, r, [lastFinalContent |-> last, printed |-> <<>>])
  ELSE turnOf(currentContent, r, display(r.messages, 1, last, <<>>))

\* The loop body on the content accumulated so far.
handle(p, currentContent, last) ==
  parsed(currentContent, ParseResponse(p, currentContent), last)

\* What one turn of the loop leaves behind.
turned(turn) ==
  /\ buffer' = turn.currentContent
  /\ messages' = turn.messages
  /\ err' = turn.err
  /\ lastFinalContent' = turn.lastFinalContent
  /\ printed' = turn.printed

\* parser := NewParser(), relaxed, and a response about to arrive.
InitStream ==
  /\ parser = NewParserWithConfig(DefaultConfig)
  /\ \E bs \in Responses : chunks = bs /\ stream = ResponseText(bs)
  /\ buffer = <<>>
  /\ op = ""
  /\ messages = <<>>
  /\ err = Nil
  /\ result = <<>>
  /\ call = NoCall
  /\ channel = <<>>
  /\ results = <<>>
  /\ has = FALSE
  /\ jsonStr = <<>>
  /\ object = NilMap
  /\ invoked = [c \in Callers |-> 0]
  /\ pc = [c \in Callers |-> "idle"]
  /\ frames = [f \in Callers |-> NoFrame]
  /\ returned = [c \in Callers |-> NoValue]
  /\ lastFinalContent = <<>>
  /\ printed = <<>>

\* One turn of the handler's loop: the next chunk, cut wherever the sender
\* cut it, is written to the buffer, the buffer is parsed, and the final
\* contents are shown.
Receive ==
  /\ \E k \in 1..Len(stream) :
       /\ turned(handle(parser, buffer \o SubSeq(stream, 1, k), lastFinalContent))
       /\ stream' = SubSeq(stream, k + 1, Len(stream))
  /\ op' = "ParseResponse"
  /\ UNCHANGED <<parser, chunks, result, call, channel, results, has, jsonStr,
                 object, concurrentVars>>

NextStream == Receive

SpecStream == InitStream /\ [][NextStream]_vars

\* The calls concurrent callers make on the one parser: every method, on
\* contents that take ParseResponse through each of its blocks.
Calls ==
  << [op |-> "ParseResponse",
      content |-> ChunkText(Chunks[2]) \o ChunkText(Chunks[1]), channel |-> <<>>],
     [op |-> "ParseResponse", content |-> <<>>, channel |-> <<>>],
     [op |-> "ExtractFinalMessage", content |-> ChunkText(Chunks[14]), channel |-> <<>>],
     [op |-> "ExtractFunctionCall", content |-> ChunkText(Chunks[11]), channel |-> <<>>],
     [op |-> "GetChannelContent",
      content |-> ChunkText(Chunks[2]) \o ChunkText(Chunks[1]), channel |-> ChannelFinal],
     [op |-> "HasChannel", content |-> ChunkText(Chunks[8]), channel |-> <<"bogus">>],
     [op |-> "ExtractJSON", content |-> JSONChunks[3], channel |-> <<>>] >>

\* A call frame shared by every caller, as if messages were a field of Parser.
frameShared(c) == 1

\* The frame of caller c's call: "var messages []Message" is a local of
\* ParseResponse, so every call has its own.
frame(c) == c

\* Caller c calls a method.  ExtractJSON never calls ParseResponse; the other
\* methods enter it, and it returns at once on an empty content.
Enter(c) ==
  /\ pc[c] = "idle"
  /\ \E k \in 1..Len(Calls) :
       /\ invoked' = [invoked EXCEPT ![c] = k]
       /\ pc' = [pc EXCEPT ![c] =
                   IF Calls[k].op = "ExtractJSON" THEN "json"
                   ELSE IF Calls[k].content = <<>> THEN "return"
                   ELSE "fullForm"]
       /\ frames' = IF Calls[k].op = "ExtractJSON" THEN frames
                    ELSE [frames EXCEPT ![frame(c)] = NoFrame]
  /\ UNCHANGED <<parser, callerVars, streamVars, returned>>

\* The first block of ParseResponse in caller c's call.
FullForm(c) ==
  /\ pc[c] = "fullForm"
  /\ LET r == fullFormStep(parser, Calls[invoked[c]].content)
     IN  /\ frames' = [frames EXCEPT ![frame(c)] = r]
         /\ pc' = [pc EXCEPT ![c] = IF r.err.isNil THEN "simplified" ELSE "return"]
  /\ UNCHANGED <<parser, callerVars, streamVars, invoked, returned>>

\* The second block.
Simplified(c) ==
  /\ pc[c] = "simplified"
  /\ LET r == simplifiedStep(parser, Calls[invoked[c]].content,
                             frames[frame(c)].messages)
     IN  /\ frames' = [frames EXCEPT ![frame(c)] = r]
         /\ pc' = [pc EXCEPT ![c] = IF r.err.isNil THEN "legacy" ELSE "return"]
  /\ UNCHANGED <<parser, callerVars, streamVars, invoked, returned>>

\* The third block.
Legacy(c) ==
  /\ pc[c] = "legacy"
  /\ frames' = [frames EXCEPT ![frame(c)].messages =
                  legacyStep(parser, Calls[invoked[c]].content, @)]
  /\ pc' = [pc EXCEPT ![c] = "plain"]
  /\ UNCHANGED <<parser, callerVars, streamVars, invoked, returned>>

\* The fourth block.
Plain(c) ==
  /\ pc[c] = "plain"
  /\ frames' = [frames EXCEPT ![frame(c)].messages =
                  plainStep(parser, Calls[invoked[c]].content, @)]
  /\ pc' = [pc EXCEPT ![c] = "return"]
  /\ UNCHANGED <<parser, callerVars, streamVars, invoked, returned>>

\* ParseResponse returns to the method caller c called, which works out its
\* own result from the returned messages and error.
Return(c) ==
  /\ pc[c] = "return"
  /\ LET this == Calls[invoked[c]]
         r == frames[frame(c)]
     IN  returned' = [returned EXCEPT ![c] =
           CASE this.op = "ParseResponse" -> r
             [] this.op = "ExtractFinalMessage" ->
                  [result |-> finalMessage(parser, this.content, r)]
             [] this.op = "ExtractFunctionCall" ->
                  functionCall(parser, this.content, r)
             [] this.op = "GetChannelContent" ->
                  [results |-> channelContent(r, this.channel)]
             [] this.op = "HasChannel" ->
                  [has |-> hasChannel(r, this.channel)]]
  /\ pc' = [pc EXCEPT ![c] = "done"]
  /\ UNCHANGED <<parser, callerVars, streamVars, invoked, frames>>

\* ExtractJSON in caller c's call.
JSON(c) ==
  /\ pc[c] = "json"
  /\ returned' = [returned EXCEPT ![c] =
                    ExtractJSON(parser, Calls[invoked[c]].content)]
  /\ pc' = [pc EXCEPT ![c] = "done"]
  /\ UNCHANGED <<parser, callerVars, streamVars, invoked, frames>>

\* Callers running against one parser, their steps interleaved in any order.
NextConcurrent ==
  \E c \in Callers :
    \/ Enter(c)
    \/ FullForm(c)
    \/ Simplified(c)
    \/ Legacy(c)
    \/ Plain(c)
    \/ Return(c)
    \/ JSON(c)

\* One parser, relaxed or strict, with no call made on it yet.
InitConcurrent ==
  /\ \E strict \in BOOLEAN :
       parser = NewParserWithConfig([StrictMode |-> strict,
                                     DefaultRole |-> DefaultConfig.DefaultRole])
  /\ buffer = <<>>
  /\ chunks = <<>>
  /\ op = ""
  /\ messages = <<>>
  /\ err = Nil
  /\ result = <<>>
  /\ call = NoCall
  /\ channel = <<>>
  /\ results = <<>>
  /\ has = FALSE
  /\ jsonStr = <<>>
  /\ object = NilMap
  /\ invoked = [c \in Callers |-> 0]
  /\ pc = [c \in Callers |-> "idle"]
  /\ frames = [f \in Callers |-> NoFrame]
  /\ returned = [c \in Callers |-> NoValue]
  /\ stream = <<>>
  /\ lastFinalContent = <<>>
  /\ printed = <<>>

SpecConcurrent == InitConcurrent /\ [][NextConcurrent]_vars

\* ------------------------------------------------------------ the four rules, one by one

\* What each rule of ParseResponse yields on its own for a content.
FullFormYield(p, content) ==
  LET matches == messagePattern(content)
  IN  [i \in 1..Len(matches) |-> fullFormMessage(p, matches[i])]

SimplifiedYield(p, content) ==
  LET matches == channelPattern(content)
  IN  [i \in 1..Len(matches) |-> simplifiedMessage(p, matches[i])]

LegacyYield(p, content) ==
  IF functionPattern(content).ok
  THEN <<legacyMessage(p, functionPattern(content))>>
  ELSE <<>>

PlainYield(p, content) ==
  IF ~p.config.StrictMode /\ content # <<>>
  THEN <<[Role |-> p.config.DefaultRole, Channel |-> ChannelFinal,
          Content |-> content, To |-> <<>>, IsCall |-> FALSE]>>
  ELSE <<>>

\* The yield of the first rule, in the fixed order, that yields anything.
FirstYield(p, content) ==
  IF FullFormYield(p, content) # <<>> THEN FullFormYield(p, content)
  ELSE IF SimplifiedYield(p, content) # <<>> THEN SimplifiedYield(p, content)
  ELSE IF LegacyYield(p, content) # <<>> THEN LegacyYield(p, content)
  ELSE PlainYield(p, content)

Parsed == op = "ParseResponse"

\* C1: a successful ParseResponse returns the messages of exactly one rule,
\* the first of full-form, simplified-form, legacy call-notation and plain
\* text that yields a match; in particular a content with a full-form block
\* and a FUNCTION_CALL: name(args) occurrence yields the full-form messages
\* only.
C1_FirstRuleOnly ==
  (Parsed /\ err.isNil) =>
    /\ messages = FirstYield(parser, buffer)
    /\ (FullFormYield(parser, buffer) # <<>> /\ functionPattern(buffer).ok)
         => /\ Len(messages) = Len(messagePattern(buffer))
            /\ \A i \in 1..Len(messages) :
                 messages[i].Channel = messagePattern(buffer)[i].channel

\* A full-form block whose body holds a legacy call was parsed: one message,
\* on the block's channel, and it is no call.
C1_Witness ==
  /\ Parsed /\ err.isNil
  /\ Len(messagePattern(buffer)) = 1
  /\ functionPattern(buffer).ok
  /\ Len(messages) = 1
  /\ messages[1].Channel = ChannelFinal
  /\ ~messages[1].IsCall

\* The buffer is made of well-formed full-form blocks and nothing else: every
\* chunk written is a block, only the last may lack its terminator, and under
\* strict validation every channel is a recognized one.
WellFormedInput ==
  /\ chunks # <<>>
  /\ \A i \in 1..Len(chunks) :
       LET b == Chunks[chunks[i]]
       IN  /\ b.block
           /\ i < Len(chunks) => b.term # <<>>
           /\ parser.config.StrictMode =>
                b.channel \in {ChannelAnalysis, ChannelCommentary, ChannelFinal}

\* C2: on a content made of N well-formed full-form blocks ParseResponse
\* returns N messages in input order; message i has block i's channel, its
\* role (the default role when the block names none), its to= target (empty
\* when absent) and its body without the white space around it.
C2_BlocksInOrder ==
  (Parsed /\ WellFormedInput) =>
    /\ err.isNil
    /\ Len(messages) = Len(chunks)
    /\ \A i \in 1..Len(chunks) :
         LET b == Chunks[chunks[i]]
         IN  /\ messages[i].Channel = b.channel
             /\ messages[i].Role =
                  (IF b.role # <<>> THEN b.role ELSE parser.config.DefaultRole)
             /\ messages[i].To = b.to
             /\ messages[i].Content = b.core

\* Two blocks were parsed: the first with white space around its body and no
\* role, the second naming a role and a target-less channel.
C2_Witness ==
  /\ Parsed /\ WellFormedInput
  /\ Len(chunks) = 2
  /\ Chunks[chunks[1]].lead # <<>> /\ Chunks[chunks[1]].trail # <<>>
  /\ Chunks[chunks[1]].role = <<>>
  /\ Chunks[chunks[2]].role # <<>>
  /\ Len(messages) = 2
  /\ messages[1].Content = Chunks[chunks[1]].core
  /\ messages[2].Role = Chunks[chunks[2]].role

\* The channels of the matches the full-form rule, or else the simplified-form
\* rule, finds in the buffer, in order.
MatchedChannels ==
  LET full == messagePattern(buffer)
      simple == channelPattern(buffer)
  IN  IF full # <<>> THEN [i \in 1..Len(full) |-> full[i].channel]
      ELSE [i \in 1..Len(simple) |-> simple[i].channel]

Unrecognized ==
  {i \in 1..Len(MatchedChannels) :
     MatchedChannels[i] \notin {ChannelAnalysis, ChannelCommentary, ChannelFinal}}

\* C3: under strict validation ParseResponse fails exactly when a matched
\* message has a channel outside analysis, commentary and final; the error
\* names the first such channel and no message is returned, not even the valid
\* ones matched before it.  Under relaxed validation it never fails and the
\* same matches are returned, unrecognized channels included.
C3_StrictFailsFast ==
  Parsed =>
    /\ (parser.config.StrictMode /\ Unrecognized # {}) =>
         /\ ~err.isNil
         /\ err.text = <<"invalid channel: ">> \o MatchedChannels[Min(Unrecognized)]
         /\ messages = <<>>
    /\ ~err.isNil => (parser.config.StrictMode /\ Unrecognized # {})
    /\ (~parser.config.StrictMode /\ MatchedChannels # <<>>) =>
         /\ Len(messages) = Len(MatchedChannels)
         /\ \A i \in 1..Len(messages) : messages[i].Channel = MatchedChannels[i]

\* A strict parser met a valid block followed by a block on an unrecognized
\* channel: the call failed and returned nothing.
C3_Witness ==
  /\ Parsed /\ parser.config.StrictMode
  /\ Len(MatchedChannels) = 2
  /\ Unrecognized = {2}
  /\ ~err.isNil
  /\ messages = <<>>

FinalExtracted == op = "ExtractFinalMessage"

\* A message ExtractFinalMessage may return: on the final channel, no call,
\* and not starting with the FUNCTION_CALL: literal.
Presentable(msg) ==
  msg.Channel = ChannelFinal /\ ~msg.IsCall /\ ~HasPrefix(msg.Content, FC)

\* C4: ExtractFinalMessage returns, when ParseResponse fails or returns no
\* message, the empty string under strict validation and the input itself
\* under relaxed validation; otherwise the content of the first message on the
\* final channel that is no call and does not begin with FUNCTION_CALL:, and
\* the empty string when there is none.
C4_FinalReference ==
  FinalExtracted =>
    LET r == ParseResponse(parser, buffer)
    IN  IF ~r.err.isNil \/ r.messages = <<>>
        THEN result = (IF parser.config.StrictMode THEN <<>> ELSE buffer)
        ELSE \/ \E i \in 1..Len(r.messages) :
                  /\ Presentable(r.messages[i])
                  /\ \A j \in 1..(i - 1) : ~Presentable(r.messages[j])
                  /\ result = r.messages[i].Content
             \/ /\ \A i \in 1..Len(r.messages) : ~Presentable(r.messages[i])
                /\ result = <<>>

\* The final message came second, after an analysis message, and its content
\* was returned.
C4_Witness ==
  /\ FinalExtracted
  /\ LET r == ParseResponse(parser, buffer)
     IN  /\ Len(r.messages) = 2
         /\ r.messages[1].Channel = ChannelAnalysis
         /\ Presentable(r.messages[2])
         /\ result = r.messages[2].Content
         /\ result # <<>>
         /\ result # r.messages[1].Content

\* C5: whatever the input and the validation mode, what ExtractFinalMessage
\* returns never begins with FUNCTION_CALL:, is empty when ParseResponse
\* yields no final-channel message, and is otherwise the content of a message
\* on the final channel (never one on the analysis channel).  On an input made
\* of well-formed blocks it is empty or the text of a final block.
C5_NoAnalysisNoCallSyntax ==
  FinalExtracted =>
    LET r == ParseResponse(parser, buffer)
    IN  /\ ~HasPrefix(result, FC)
        /\ (\A i \in 1..Len(r.messages) : r.messages[i].Channel # ChannelFinal)
             => result = <<>>
        /\ result # <<>> =>
             \E i \in 1..Len(r.messages) :
               /\ r.messages[i].Channel = ChannelFinal
               /\ r.messages[i].Content = result
        /\ (WellFormedInput /\ result # <<>>) =>
             \E i \in 1..Len(chunks) :
               /\ Chunks[chunks[i]].channel = ChannelFinal
               /\ Chunks[chunks[i]].core = result

\* An analysis message and a final message that holds call syntax were
\* parsed, and nothing was returned.
C5_Witness ==
  /\ FinalExtracted
  /\ LET r == ParseResponse(parser, buffer)
     IN  /\ \E i \in 1..Len(r.messages) :
              r.messages[i].Channel = ChannelAnalysis /\ r.messages[i].Content # <<>>
         /\ \E i \in 1..Len(r.messages) :
              r.messages[i].Channel = ChannelFinal /\ HasPrefix(r.messages[i].Content, FC)
  /\ result = <<>>

CallExtracted == op = "ExtractFunctionCall"

\* What follows the first separator of a target.
AfterFirst(s, sep) == Slice(s, LazyEnd(s, 1, {sep}) + 1, Len(s) + 1)

\* A call message with a target of at least two segments.
Qualifying(msg) == msg.IsCall /\ msg.To # <<>> /\ Contains(msg.To, DOT)

\* C6: when ParseResponse succeeds and some message is a call with a target
\* that has a "." in it, ExtractFunctionCall returns found, the content of the
\* first such message as args, and as name what follows the first "." of its
\* target.
C6_NameAfterFirstSeparator ==
  CallExtracted =>
    LET r == ParseResponse(parser, buffer)
    IN  r.err.isNil =>
          \A i \in 1..Len(r.messages) :
            (/\ Qualifying(r.messages[i])
             /\ \A j \in 1..(i - 1) : ~Qualifying(r.messages[j]))
            => call = [functionName |-> AfterFirst(r.messages[i].To, DOT),
                       args |-> r.messages[i].Content,
                       found |-> TRUE]

\* C7 as stated: whenever the input has a qualifying call message or the
\* legacy pattern matches the raw text, ExtractFunctionCall returns found, in
\* both validation modes.
C7_FoundWheneverEitherPath ==
  CallExtracted =>
    LET r == ParseResponse(parser, buffer)
    IN  ((\E i \in 1..Len(r.messages) : Qualifying(r.messages[i]))
          \/ functionPattern(buffer).ok)
        => call.found

\* C7, amended: ExtractFunctionCall returns found exactly when ParseResponse
\* succeeds and either a message qualifies or the legacy pattern matches the
\* raw text; when ParseResponse fails it returns not-found, whatever the raw
\* text holds.
C7_FoundIffParsedAndEitherPath ==
  CallExtracted =>
    LET r == ParseResponse(parser, buffer)
    IN  /\ call.found <=>
             /\ r.err.isNil
             /\ \/ \E i \in 1..Len(r.messages) : Qualifying(r.messages[i])
                \/ functionPattern(buffer).ok
        /\ ~call.found => call = NoCall

\* ParseResponse returned a message that is no call, and the call was found
\* by matching the legacy pattern against the raw text.
C7_Witness ==
  /\ CallExtracted
  /\ LET r == ParseResponse(parser, buffer)
     IN  /\ r.err.isNil
         /\ r.messages # <<>>
         /\ \A i \in 1..Len(r.messages) : ~r.messages[i].IsCall
  /\ functionPattern(buffer).ok
  /\ call.found
  /\ call.functionName = functionPattern(buffer).name

\* No rule but the plain-text one has anything to match in the buffer.
Unstructured ==
  /\ messagePattern(buffer) = <<>>
  /\ channelPattern(buffer) = <<>>
  /\ ~functionPattern(buffer).ok

\* C8: the plain-text fallback fires exactly when the first three rules yield
\* nothing, validation is relaxed and the input is not empty; the result is
\* then one message with the default role, the final channel, no target, no
\* call flag and the whole input, unmodified, as content.  Under strict
\* validation such an input yields no message and no error, and the empty
\* input yields no message in both modes.
C8_PlainTextFallback ==
  Parsed =>
    LET whole == [Role |-> parser.config.DefaultRole, Channel |-> ChannelFinal,
                  Content |-> buffer, To |-> <<>>, IsCall |-> FALSE]
        fires == Unstructured /\ ~parser.config.StrictMode /\ buffer # <<>>
    IN  /\ fires => (messages = <<whole>> /\ err.isNil)
        /\ ~fires => messages # <<whole>>
        /\ (Unstructured /\ parser.config.StrictMode) => (messages = <<>> /\ err.isNil)
        /\ buffer = <<>> => (messages = <<>> /\ err.isNil)

\* Plain text that starts with white space came back whole.
C8_Witness ==
  /\ Parsed /\ Unstructured /\ ~parser.config.StrictMode
  /\ Len(buffer) >= 2
  /\ buffer[1] \in Space
  /\ Len(messages) = 1
  /\ messages[1].Content = buffer

\* C9: when the full-form and simplified-form rules match nothing and the
\* legacy pattern matches, ParseResponse returns one message, built from the
\* leftmost match: default role, commentary channel, target functions.<name>,
\* the captured arguments as they stand, call flag set; in both modes and with
\* no error.
C9_LegacyCall ==
  (/\ Parsed
   /\ messagePattern(buffer) = <<>>
   /\ channelPattern(buffer) = <<>>
   /\ functionPattern(buffer).ok) =>
    LET match == functionPattern(buffer)
        rp == match.hi - 1
        lp == rp - Len(match.body) - 1
    IN  /\ err.isNil
        /\ buffer[lp] = LP /\ buffer[rp] = RP
        /\ \A k \in (lp + 1)..(rp - 1) : buffer[k] # RP
        /\ messages = <<[Role |-> parser.config.DefaultRole,
                         Channel |-> ChannelCommentary,
                         Content |-> Slice(buffer, lp + 1, rp),
                         To |-> <<"functions", DOT>> \o match.name,
                         IsCall |-> TRUE]>>
        /\ \A q \in 1..(match.lo - 1) : ~functionPatternAt(buffer, q).ok

\* A strict parser met two legacy calls, the first with white space before its
\* argument: one message, for the first call, with the white space kept.
C9_Witness ==
  /\ Parsed /\ parser.config.StrictMode
  /\ functionPattern(buffer).ok
  /\ \E q \in (functionPattern(buffer).hi)..Len(buffer) : functionPatternAt(buffer, q).ok
  /\ Len(messages) = 1
  /\ messages[1].To = <<"functions", DOT, "f">>
  /\ messages[1].Content = <<SP, "w">>
  /\ messages[1].IsCall

\* C10: the body of every full-form message runs from its message marker to
\* the nearest terminator token after it, or to the end of the input when
\* there is none, and the message is a call exactly when that terminator is
\* <|call|>.
C10_NearestTerminator ==
  (Parsed /\ err.isNil /\ messagePattern(buffer) # <<>>) =>
    LET matches == messagePattern(buffer)
    IN  /\ Len(messages) = Len(matches)
        /\ \A i \in 1..Len(matches) :
             LET lo == matches[i].bodyLo
                 hi == matches[i].bodyHi
             IN  /\ buffer[lo - 1] = MESSAGE
                 /\ \A k \in lo..(hi - 1) : buffer[k] \notin Terminators
                 /\ hi = Len(buffer) + 1 \/ buffer[hi] \in Terminators
                 /\ messages[i].Content = TrimSpace(Slice(buffer, lo, hi))
                 /\ messages[i].IsCall <=> (At(buffer, hi) = CALL)

\* Two blocks were parsed, the first ended by <|call|>, the second by another
\* terminator or the end of the input: only the first is a call.
C10_Witness ==
  /\ Parsed /\ err.isNil
  /\ Len(messagePattern(buffer)) = 2
  /\ At(buffer, messagePattern(buffer)[1].bodyHi) = CALL
  /\ At(buffer, messagePattern(buffer)[2].bodyHi) # CALL
  /\ Len(messages) = 2
  /\ messages[1].IsCall
  /\ ~messages[2].IsCall

\* ------------------------------------------------------------ C11

\* C11: GetChannelContent returns the contents of exactly the messages of
\* ParseResponse whose channel equals the channel asked for, in extraction
\* order, and nothing when ParseResponse fails or none matches; HasChannel is
\* true iff ParseResponse succeeds and some message matches, that is iff
\* GetChannelContent of the same content and channel is non-empty.
C11_ChannelContent ==
  LET r == ParseResponse(parser, buffer)
      matching == SelectSeq(r.messages, LAMBDA msg : msg.Channel = channel)
      expected == IF r.err.isNil
                  THEN [i \in 1..Len(matching) |-> matching[i].Content]
                  ELSE <<>>
  IN  /\ op = "GetChannelContent" =>
         /\ results = expected
         /\ (~r.err.isNil \/ matching = <<>>) => results = <<>>
         /\ (results # <<>>) = HasChannel(parser, buffer, channel)
      /\ op = "HasChannel" =>
         /\ has = (r.err.isNil /\ matching # <<>>)
         /\ has = (GetChannelContent(parser, buffer, channel) # <<>>)

\* Two messages of the channel asked for, with another channel between or
\* around them, are returned in order.
C11_Witness ==
  /\ op = "GetChannelContent"
  /\ Len(results) = 2
  /\ results[1] # results[2]
  /\ Len(ParseResponse(parser, buffer).messages) = 2

\* ------------------------------------------------------------ C12

Max(S) == CHOOSE x \in S : \A y \in S : x >= y

\* C12: ExtractJSON fails with the no-JSON-found error exactly when the
\* content has no "{", has no "}", or its last "}" lies before its first "{";
\* otherwise the candidate it decodes is the span from the first "{" to the
\* last "}" inclusive, and the only other failure is the malformed-JSON error
\* for that span.  The result is the one a parser of any other configuration
\* returns for the same content.
C12_JSONSpan ==
  op = "ExtractJSON" =>
    LET opens == {i \in 1..Len(buffer) : buffer[i] = LBRACE}
        closes == {i \in 1..Len(buffer) : buffer[i] = RBRACE}
        absent == opens = {} \/ closes = {} \/ Max(closes) < Min(opens)
    IN  /\ (err = NoJSONFoundError) = absent
        /\ absent => object.isNil
        /\ ~absent =>
             /\ jsonStr = SubSeq(buffer, Min(opens), Max(closes))
             /\ err \in {Nil, FailedToParseJSONError}
             /\ (err = FailedToParseJSONError) = ~Unmarshal(jsonStr).ok
             /\ err.isNil = ~object.isNil
        /\ \A strict \in BOOLEAN, role \in DefaultRoles :
             LET q == NewParserWithConfig([StrictMode |-> strict, DefaultRole |-> role])
                 r == ExtractJSON(q, buffer)
             IN  r.result = object /\ r.err = err

\* The valid content of the test: text, an object of two members, more text.
C12_Witness ==
  /\ op = "ExtractJSON"
  /\ err.isNil
  /\ object = Map(Member)
  /\ buffer[1] # LBRACE
  /\ buffer[Len(buffer)] # RBRACE
  /\ jsonStr # buffer

\* ------------------------------------------------------------ C13

\* A content with no leading and no trailing white space.
Trimmed(s) == s = <<>> \/ (s[1] \notin Space /\ s[Len(s)] \notin Space)

\* C13 as stated: every message ParseResponse returns, whichever rule
\* produced it and in either mode, has content with no leading and no
\* trailing white space.
C13_AllContentTrimmed ==
  (Parsed /\ err.isNil) =>
    \A i \in 1..Len(messages) : Trimmed(messages[i].Content)

\* C13, amended: every message of the full-form or the simplified-form rule
\* has content with no leading and no trailing white space, in either mode;
\* a message of the legacy rule carries the captured argument text as it
\* stands and the plain-text message the whole content as it stands, white
\* space at either end included.
C13_StructuredContentTrimmed ==
  (Parsed /\ err.isNil) =>
    LET structured == messagePattern(buffer) # <<>> \/ channelPattern(buffer) # <<>>
        match == functionPattern(buffer)
    IN  /\ structured => \A i \in 1..Len(messages) : Trimmed(messages[i].Content)
        /\ (~structured /\ match.ok) =>
             /\ Len(messages) = 1
             /\ messages[1].Content = match.body
        /\ (~structured /\ ~match.ok) =>
             \A i \in 1..Len(messages) : messages[i].Content = buffer

\* A block whose body has white space at both ends, returned trimmed.
C13_Witness ==
  /\ Parsed /\ err.isNil
  /\ \E i \in 1..Len(messages) :
       LET body == messagePattern(buffer)[i].body
       IN  /\ body[1] \in Space
           /\ body[Len(body)] \in Space
           /\ messages[i].Content # <<>>

\* ------------------------------------------------------------ C14

\* C14: every message ParseResponse returns has a non-empty role, for every
\* content and every configuration: the role token of the block when the
\* block has one, otherwise the configured default role.
C14_RoleNeverEmpty ==
  (Parsed /\ err.isNil) =>
    LET matches == messagePattern(buffer)
    IN  \A i \in 1..Len(messages) :
          /\ messages[i].Role # <<>>
          /\ messages[i].Role =
               IF i <= Len(matches) /\ matches[i].role # <<>>
               THEN matches[i].role
               ELSE parser.config.DefaultRole

\* ------------------------------------------------------------ C15

\* What a call returns when it runs alone.
Alone(this) ==
  CASE this.op = "ParseResponse" -> ParseResponse(parser, this.content)
    [] this.op = "ExtractFinalMessage" ->
         [result |-> ExtractFinalMessage(parser, this.content)]
    [] this.op = "ExtractFunctionCall" -> ExtractFunctionCall(parser, this.content)
    [] this.op = "GetChannelContent" ->
         [results |-> GetChannelContent(parser, this.content, this.channel)]
    [] this.op = "HasChannel" ->
         [has |-> HasChannel(parser, this.content, this.channel)]
    [] this.op = "ExtractJSON" -> ExtractJSON(parser, this.content)

C15_Results ==
  /\ \A c \in Callers :
       pc[c] = "done" => returned[c] = Alone(Calls[invoked[c]])
  /\ \A c, d \in Callers :
       (pc[c] = "done" /\ pc[d] = "done" /\ invoked[c] = invoked[d]) =>
         returned[c] = returned[d]

\* C15: no step of any method changes the parser; under every interleaving
\* of the calls concurrent callers make on it, each call returns what it
\* returns when run alone, and two calls of the same method on the same
\* content return identical results.
C15_StatelessParser == []C15_Results /\ [][parser' = parser]_vars

\* One caller has its messages back while another, on a different content,
\* is between two blocks of ParseResponse with messages of its own.
C15_Witness ==
  \E c, d \in Callers :
    /\ pc[c] = "done"
    /\ Calls[invoked[c]].op = "ParseResponse"
    /\ Len(returned[c].messages) = 2
    /\ pc[d] = "simplified"
    /\ Calls[invoked[d]].content # Calls[invoked[c]].content
    /\ frames[frame(d)].messages # <<>>

\* ------------------------------------------------------------ C16

\* The body of a block of the response, without the white space around it.
TrimmedBody(b) == TrimSpace(b.lead \o b.core \o b.trail)

\* C16: while a relaxed parser's caller accumulates the chunks of a response
\* made of well-formed full-form blocks and parses the growing buffer after
\* each chunk, wherever the chunks are cut, every final-channel content it
\* gets, and every content it shows, is the trimmed body of a final block of
\* the whole response or a prefix of it.
C16_OnlyFinalBodies ==
  LET finals == {TrimmedBody(Chunks[chunks[j]]) :
                   j \in {j \in 1..Len(chunks) :
                            Chunks[chunks[j]].channel = ChannelFinal}}
      bodyPrefix(s) == \E body \in finals : HasPrefixString(body, s)
  IN  /\ \A i \in 1..Len(messages) :
           messages[i].Channel = ChannelFinal => bodyPrefix(messages[i].Content)
      /\ lastFinalContent # <<>> => bodyPrefix(lastFinalContent)

\* ------------------------------------------------------------ C17

\* C17: the simplified-form rule never contributes a message: on every
\* content on which messagePattern finds no match, channelPattern finds none
\* either and the second block of ParseResponse appends nothing, so what
\* ParseResponse returns is the yield of the full-form rule, of the legacy
\* rule or of the plain-text fallback.
C17_SimplifiedNeverContributes ==
  /\ messagePattern(buffer) = <<>> =>
       /\ channelPattern(buffer) = <<>>
       /\ simplifiedStep(parser, buffer, <<>>) = [messages |-> <<>>, err |-> Nil]
  /\ (Parsed /\ err.isNil) =>
       messages = IF FullFormYield(parser, buffer) # <<>>
                  THEN FullFormYield(parser, buffer)
                  ELSE IF LegacyYield(parser, buffer) # <<>>
                  THEN LegacyYield(parser, buffer)
                  ELSE PlainYield(parser, buffer)

\* A content with a channel marker that the full-form rule does not match:
\* the simplified-form rule is tried, finds nothing, and the content comes
\* back as plain text.
C17_Witness ==
  /\ Parsed /\ err.isNil
  /\ Contains(buffer, CHANNEL)
  /\ Contains(buffer, MESSAGE)
  /\ messagePattern(buffer) = <<>>
  /\ messages # <<>>
  /\ messages = PlainYield(parser, buffer)
====
